---- MODULE Spec2Model ----
(***************************************************************************)
(* Model of the clinician assignment-scoring pipeline                      *)
(* (hwbswee/assign-to-swee): feature extraction, burnout detection,        *)
(* load-balancing detection, score composition and the App's memoised      *)
(* scoring pass.                                                           *)
(*                                                                         *)
(* Numbers.  Monthly hours and active cases are whole numbers.  Every      *)
(* JavaScript number that is not a whole number is carried exactly:        *)
(*   - a rational is a pair <<n, d>> with d > 0;                           *)
(*   - a value produced by Number(x.toFixed(1)) is carried in TENTHS       *)
(*     (26.7 is 267), so currentMonth, sixMonthAverage and growthRate of   *)
(*     an enriched record are integers counting tenths;                    *)
(*   - a comparison with a square root (mean + 1.5 * stdDev) is decided    *)
(*     on the squares.                                                     *)
(* Rounding is done on the exact value (Math.round: half up; toFixed:      *)
(* half away from zero).                                                   *)
(***************************************************************************)
EXTENDS Integers, Sequences, FiniteSets, TLC

VARIABLES
    cliniciansData,        \* App state: the roster (useState([]))
    timeWindow,            \* App state: active-case time window, in half months
    selectedLevel,         \* App state: level filter
    now,                   \* the wall clock: [monthIndex, dayOfMonth]
    cliniciansWithScores,  \* App memo: the scored records of the last pass
    filteredClinicians,    \* App memo: the records listed, filtered and sorted
    call,                  \* the exported function under call and its arguments
    ret                    \* <<>> before the call returns, <<result>> after

vars ==
    <<cliniciansData, timeWindow, selectedLevel, now, cliniciansWithScores, filteredClinicians,
      call, ret>>

(***************************************************************************)
(* Program constants                                                       *)
(***************************************************************************)
HIGH_LOAD_CAP == 45
MIN_POPULATION == 3
EarlyDayLimit == 7
SmallDataThreshold == 5
HistoryMonths == 6
ScoreCap == 100

(***************************************************************************)
(* Bounds of the model                                                     *)
(***************************************************************************)
MaxBurnoutLen == 5
MaxGrowthLen == 8
MaxClinicians == 3
MaxMonthIndex == 3
MaxCohort == 4
MaxCohortMonth == 4
MaxScenarioMonth == 5

(***************************************************************************)
(* Arithmetic helpers                                                      *)
(***************************************************************************)
Max2(a, b) == IF a >= b THEN a ELSE b
Min2(a, b) == IF a <= b THEN a ELSE b
Abs(a) == IF a < 0 THEN -a ELSE a

\* Math.max(...values, floor) / Math.min(...values) over the values of a sequence
MaxOfSeq(s, floor) ==
    LET S == {s[i] : i \in 1..Len(s)} \cup {floor}
    IN CHOOSE m \in S : \A y \in S : y <= m

MinOfSeq(s) ==
    LET S == {s[i] : i \in 1..Len(s)}
    IN CHOOSE m \in S : \A y \in S : m <= y

RECURSIVE Sum(_)
Sum(s) == IF s = <<>> THEN 0 ELSE Head(s) + Sum(Tail(s))

RECURSIVE Gcd(_, _)
Gcd(a, b) == IF b = 0 THEN a ELSE Gcd(b, a % b)

\* Math.round(n/d) for d > 0: the nearest integer, a half rounded up
MathRound(n, d) == (2 * n + d) \div (2 * d)

\* Number((n/d).toFixed(1)) for d > 0, in tenths: the nearest tenth, a half
\* rounded away from zero
ToFixed1(n, d) ==
    IF n >= 0 THEN (20 * n + d) \div (2 * d)
    ELSE -((20 * (-n) + d) \div (2 * d))

\* Array.prototype.map: the array of the values of f, each computed once
map(f) == f \o <<>>

\* Array.prototype.slice(start, end) for 0 <= start
slice(arr, start, end) == SubSeq(arr, start + 1, Min2(end, Len(arr)))

(***************************************************************************)
(* dataValidation.js                                                       *)
(***************************************************************************)
\* an access that reads the first value for an index below 0
safeArrayAccess_clampingIndex(array, index, defaultValue) ==
    IF index >= Len(array) \/ Len(array) = 0 THEN defaultValue
    ELSE array[Max2(index, 0) + 1]

\* safeArrayAccess(array, index, defaultValue): the value, or the default
\* when the index is out of bounds
safeArrayAccess(array, index, defaultValue) ==
    IF index < 0 \/ index >= Len(array) THEN defaultValue
    ELSE array[index + 1]

\* safeAverage(values): sum / count of the values >= 0, as a rational;
\* 0 for an empty array
safeAverage(values) ==
    LET validValues == SelectSeq(values, LAMBDA v : v >= 0)
    IN IF Len(values) = 0 \/ Len(validValues) = 0 THEN <<0, 1>>
       ELSE <<Sum(validValues), Len(validValues)>>

(***************************************************************************)
(* burnoutDetection.js                                                     *)
(***************************************************************************)
BurnoutNone ==
    [consecutiveHighMonths |-> 0, burnoutLevel |-> "none", penalty |-> 0, threshold |-> 0]

\* hours >= average * 1.25, without the cap
isHighLoad_uncapped(hours, avg) == 4 * hours * avg[2] >= 5 * avg[1]

\* hours >= the average itself, or the cap
isHighLoad_atAverage(hours, avg) ==
    \/ hours * avg[2] >= avg[1]
    \/ hours >= HIGH_LOAD_CAP

\* hours >= Math.min(average * 1.25, 45), average = avg[1] / avg[2]
isHighLoad(hours, avg) ==
    \/ 4 * hours * avg[2] >= 5 * avg[1]
    \/ hours >= HIGH_LOAD_CAP

\* a backward loop that passes over months without hours
RECURSIVE burnoutScan_pastEmptyMonths(_, _, _)
burnoutScan_pastEmptyMonths(monthlyHours, i, avg) ==
    IF i < 0 THEN 0
    ELSE IF safeArrayAccess(monthlyHours, i, 0) = 0
         THEN burnoutScan_pastEmptyMonths(monthlyHours, i - 1, avg)
    ELSE IF isHighLoad(safeArrayAccess(monthlyHours, i, 0), avg)
         THEN 1 + burnoutScan_pastEmptyMonths(monthlyHours, i - 1, avg)
         ELSE 0

\* the backward loop: count months i, i-1, ... that are high-load, stop at the
\* first that is not
RECURSIVE burnoutScan(_, _, _)
burnoutScan(monthlyHours, i, avg) ==
    IF i < 0 THEN 0
    ELSE IF isHighLoad(safeArrayAccess(monthlyHours, i, 0), avg)
         THEN 1 + burnoutScan(monthlyHours, i - 1, avg)
         ELSE 0

\* a ladder with the "+5 to +15 points" of the metrics header for a caution
burnoutTier_caution5(consecutiveCount) ==
    IF consecutiveCount >= 4 THEN [burnoutLevel |-> "severe", penalty |-> 15]
    ELSE IF consecutiveCount = 3 THEN [burnoutLevel |-> "warning", penalty |-> 10]
    ELSE IF consecutiveCount = 2 THEN [burnoutLevel |-> "caution", penalty |-> 5]
    ELSE [burnoutLevel |-> "none", penalty |-> 0]

\* the tier ladder
burnoutTier(consecutiveCount) ==
    IF consecutiveCount >= 4 THEN [burnoutLevel |-> "severe", penalty |-> 15]
    ELSE IF consecutiveCount = 3 THEN [burnoutLevel |-> "warning", penalty |-> 10]
    ELSE IF consecutiveCount = 2 THEN [burnoutLevel |-> "caution", penalty |-> 3]
    ELSE [burnoutLevel |-> "none", penalty |-> 0]

\* a baseline over all the months, the empty ones included
burnoutBaselineMonths_unfiltered(monthlyHours, currentMonthIndex) ==
    slice(monthlyHours, 0, Min2(currentMonthIndex + 1, Len(monthlyHours)))

\* the months the individual baseline is averaged over: the positive ones of
\* months 0..currentMonthIndex
burnoutBaselineMonths(monthlyHours, currentMonthIndex) ==
    LET safeEndIndex == Min2(currentMonthIndex + 1, Len(monthlyHours))
        monthsToCheck == slice(monthlyHours, 0, safeEndIndex)
    IN SelectSeq(monthsToCheck, LAMBDA h : h > 0)

\* Math.round(Math.min(average * 1.25, 45) * 10) / 10, in tenths
burnoutThreshold(avg) ==
    MathRound(Min2(25 * avg[1], 2 * avg[2] * HIGH_LOAD_CAP * 10), 2 * avg[2])

\* a detection that asks for two months of data, not three
detectBurnout_fromTwoMonths(monthlyHours, currentMonthIndex) ==
    IF currentMonthIndex < 0 \/ currentMonthIndex >= Len(monthlyHours) THEN BurnoutNone
    ELSE IF currentMonthIndex < 1 THEN BurnoutNone
    ELSE LET validMonths == burnoutBaselineMonths(monthlyHours, currentMonthIndex)
         IN IF Len(validMonths) = 0 THEN BurnoutNone
            ELSE LET average == safeAverage(validMonths)
                 IN IF average[1] = 0 THEN BurnoutNone
                    ELSE LET consecutiveCount ==
                                 burnoutScan(monthlyHours, currentMonthIndex, average)
                             tier == burnoutTier(consecutiveCount)
                         IN [consecutiveHighMonths |-> consecutiveCount,
                             burnoutLevel |-> tier.burnoutLevel,
                             penalty |-> tier.penalty,
                             threshold |-> burnoutThreshold(average)]

detectBurnout(monthlyHours, currentMonthIndex) ==
    IF currentMonthIndex < 0 \/ currentMonthIndex >= Len(monthlyHours) THEN BurnoutNone
    ELSE IF currentMonthIndex < 2 THEN BurnoutNone
    ELSE LET validMonths == burnoutBaselineMonths(monthlyHours, currentMonthIndex)
         IN IF Len(validMonths) = 0 THEN BurnoutNone
            ELSE LET average == safeAverage(validMonths)
                 IN IF average[1] = 0 THEN BurnoutNone
                    ELSE LET consecutiveCount ==
                                 burnoutScan(monthlyHours, currentMonthIndex, average)
                             tier == burnoutTier(consecutiveCount)
                         IN [consecutiveHighMonths |-> consecutiveCount,
                             burnoutLevel |-> tier.burnoutLevel,
                             penalty |-> tier.penalty,
                             threshold |-> burnoutThreshold(average)]

\* detectBurnout on the arguments of a call; a call without monthlyHours
\* passes undefined, which is not an array
detectBurnoutCall(args) ==
    IF "monthlyHours" \notin DOMAIN args THEN BurnoutNone
    ELSE detectBurnout(args.monthlyHours, args.currentMonthIndex)

(***************************************************************************)
(* assignmentMetrics.js: growth rate                                       *)
(***************************************************************************)
\* a history that takes in the month being compared
historicalMonths_inclusive(monthlyHours, monthIndexToUse) ==
    LET safeEndIndex == Min2(monthIndexToUse + 1, Len(monthlyHours))
        safeStartIndex == Min2(Max2(0, monthIndexToUse - HistoryMonths), Len(monthlyHours))
    IN IF safeStartIndex >= safeEndIndex THEN <<>>
       ELSE slice(monthlyHours, safeStartIndex, safeEndIndex)

\* the historical months of calculateGrowthRate: up to 6 months before the
\* month in use, that month excluded, clipped to the array; <<>> when the
\* clipped range is empty
historicalMonths(monthlyHours, monthIndexToUse) ==
    LET historicalStartIndex == Max2(0, monthIndexToUse - HistoryMonths)
        historicalEndIndex == monthIndexToUse
        safeEndIndex == Min2(historicalEndIndex, Len(monthlyHours))
        safeStartIndex == Min2(historicalStartIndex, Len(monthlyHours))
    IN IF safeStartIndex >= safeEndIndex THEN <<>>
       ELSE slice(monthlyHours, safeStartIndex, safeEndIndex)

\* calculateGrowthRate(monthlyHours, currentMonthIndex, effectiveMonthIndex):
\* the growth in percent as a rational.  effectiveMonthIndex is <<>> for the
\* default null and <<m>> for a given index m.
calculateGrowthRate(monthlyHours, currentMonthIndex, effectiveMonthIndex) ==
    LET monthIndexToUse ==
            IF effectiveMonthIndex # <<>> THEN effectiveMonthIndex[1] ELSE currentMonthIndex
        currentMonth == safeArrayAccess(monthlyHours, monthIndexToUse, 0)
        history == historicalMonths(monthlyHours, monthIndexToUse)
        historicalAvg == safeAverage(history)
    IN IF history = <<>> THEN (IF currentMonth > 0 THEN <<100, 1>> ELSE <<0, 1>>)
       ELSE IF historicalAvg[1] = 0 THEN (IF currentMonth > 0 THEN <<100, 1>> ELSE <<0, 1>>)
       ELSE <<(currentMonth * historicalAvg[2] - historicalAvg[1]) * 100, historicalAvg[1]>>

(***************************************************************************)
(* loadBalancingProtection.js, and its copy with input checks in           *)
(* dateUtils.js                                                            *)
(***************************************************************************)
LoadBalancingNone ==
    [consecutiveHighLoadMonths |-> 0, protectionLevel |-> "none", penalty |-> 0]

RECURSIVE SumSq(_)
SumSq(s) == IF s = <<>> THEN 0 ELSE Head(s) * Head(s) + SumSq(Tail(s))

\* calculateStats(values) over the values > 0.  mean = sum / count and
\* stdDev = sqrt(count * sumSq - sum^2) / count; the record keeps the three
\* whole numbers they are made of.
calculateStats(values) ==
    LET validValues == SelectSeq(values, LAMBDA v : v > 0)
    IN [count |-> Len(validValues), sum |-> Sum(validValues), sumSq |-> SumSq(validValues)]

\* stdDev === 0
stdDevIsZero(stats) ==
    stats.count = 0 \/ stats.count * stats.sumSq = stats.sum * stats.sum

\* hours > mean + 1.5 * stdDev
reachesThreshold_strict(hours, stats) ==
    IF stats.count = 0 THEN hours > 0
    ELSE /\ stats.count * hours > stats.sum
         /\ 4 * (stats.count * hours - stats.sum) * (stats.count * hours - stats.sum)
               > 9 * (stats.count * stats.sumSq - stats.sum * stats.sum)

\* hours >= mean + 1.5 * stdDev: hours is not below the mean, and the square of
\* its distance to the mean is at least 2.25 times the variance
reachesThreshold(hours, stats) ==
    IF stats.count = 0 THEN hours >= 0
    ELSE /\ stats.count * hours >= stats.sum
         /\ 4 * (stats.count * hours - stats.sum) * (stats.count * hours - stats.sum)
               >= 9 * (stats.count * stats.sumSq - stats.sum * stats.sum)

\* every clinician's hours of one month, those with hours only
monthlyHoursForAll(allClinicians, monthIdx) ==
    SelectSeq([i \in 1..Len(allClinicians) |->
                   safeArrayAccess(allClinicians[i].monthlyHours2025, monthIdx, 0)],
              LAMBDA h : h > 0)

\* a ladder whose top tier starts at 5 months
loadBalancingTier_high5(consecutiveCount) ==
    IF consecutiveCount >= 5 THEN [protectionLevel |-> "high", penalty |-> 10]
    ELSE IF consecutiveCount >= 3 THEN [protectionLevel |-> "moderate", penalty |-> 6]
    ELSE IF consecutiveCount = 2 THEN [protectionLevel |-> "low", penalty |-> 3]
    ELSE [protectionLevel |-> "none", penalty |-> 0]

\* the tier ladder
loadBalancingTier(consecutiveCount) ==
    IF consecutiveCount >= 4 THEN [protectionLevel |-> "high", penalty |-> 10]
    ELSE IF consecutiveCount = 3 THEN [protectionLevel |-> "moderate", penalty |-> 6]
    ELSE IF consecutiveCount = 2 THEN [protectionLevel |-> "low", penalty |-> 3]
    ELSE [protectionLevel |-> "none", penalty |-> 0]

\* loadBalancingProtection.js: the backward loop, without a population check
RECURSIVE loadBalancingScan(_, _, _)
loadBalancingScan(monthlyHours, allClinicians, monthIdx) ==
    IF monthIdx < 0 THEN 0
    ELSE LET stats == calculateStats(monthlyHoursForAll(allClinicians, monthIdx))
             thisClinicianHours == safeArrayAccess(monthlyHours, monthIdx, 0)
         IN IF thisClinicianHours > 0 /\ reachesThreshold(thisClinicianHours, stats)
            THEN 1 + loadBalancingScan(monthlyHours, allClinicians, monthIdx - 1)
            ELSE 0

\* loadBalancingProtection.js: detectLoadBalancing, the function
\* enrichWithAssignmentMetrics imports
detectLoadBalancing(monthlyHours, allClinicians, currentMonthIndex) ==
    IF currentMonthIndex < 1 THEN LoadBalancingNone
    ELSE LET consecutiveCount ==
                 loadBalancingScan(monthlyHours, allClinicians, currentMonthIndex)
             tier == loadBalancingTier(consecutiveCount)
         IN [consecutiveHighLoadMonths |-> consecutiveCount,
             protectionLevel |-> tier.protectionLevel,
             penalty |-> tier.penalty]

\* dateUtils.js: the backward loop, which stops at a month with fewer than
\* MIN_POPULATION clinicians with hours or with a zero standard deviation
RECURSIVE loadBalancingScan_dateUtils(_, _, _)
loadBalancingScan_dateUtils(monthlyHours, allClinicians, monthIdx) ==
    IF monthIdx < 0 THEN 0
    ELSE LET forAll == monthlyHoursForAll(allClinicians, monthIdx)
             stats == calculateStats(forAll)
             thisClinicianHours == safeArrayAccess(monthlyHours, monthIdx, 0)
         IN IF Len(forAll) < MIN_POPULATION THEN 0
            ELSE IF stdDevIsZero(stats) THEN 0
            ELSE IF thisClinicianHours > 0 /\ reachesThreshold(thisClinicianHours, stats)
            THEN 1 + loadBalancingScan_dateUtils(monthlyHours, allClinicians, monthIdx - 1)
            ELSE 0

\* dateUtils.js: detectLoadBalancing
detectLoadBalancing_dateUtils(monthlyHours, allClinicians, currentMonthIndex) ==
    IF currentMonthIndex < 0 \/ currentMonthIndex >= Len(monthlyHours) THEN LoadBalancingNone
    ELSE IF currentMonthIndex < 1 THEN LoadBalancingNone
    ELSE LET consecutiveCount ==
                 loadBalancingScan_dateUtils(monthlyHours, allClinicians, currentMonthIndex)
             tier == loadBalancingTier(consecutiveCount)
         IN [consecutiveHighLoadMonths |-> consecutiveCount,
             protectionLevel |-> tier.protectionLevel,
             penalty |-> tier.penalty]

(***************************************************************************)
(* assignmentMetrics.js: enrichment                                        *)
(***************************************************************************)
\* a window of months + 1 months
getLastNMonthsIndices_oneMonthMore(months, currentIndex) ==
    [startIndex |-> Max2(0, currentIndex - months), endIndex |-> currentIndex + 1]

\* getLastNMonthsIndices(months) at clock month currentIndex
getLastNMonthsIndices(months, currentIndex) ==
    [startIndex |-> Max2(0, currentIndex - months + 1), endIndex |-> currentIndex + 1]

\* calculate6MonthAverage(monthlyHours), as a rational; clockMonthIndex is the
\* month the function reads from the clock
calculate6MonthAverage(monthlyHours, clockMonthIndex) ==
    LET idx == getLastNMonthsIndices(6, clockMonthIndex)
        safeEndIndex == Min2(idx.endIndex, Len(monthlyHours))
        safeStartIndex == Min2(idx.startIndex, Len(monthlyHours))
    IN IF safeStartIndex >= safeEndIndex THEN <<0, 1>>
       ELSE safeAverage(slice(monthlyHours, safeStartIndex, safeEndIndex))

\* a record without the field monthlyHours2025 is a clinician whose
\* monthlyHours2025 is undefined
hasMonthlyHours(clinician) == "monthlyHours2025" \in DOMAIN clinician

\* the fields of a record whose first pass failed
enrichmentError ==
    [currentMonth |-> 0, sixMonthAverage |-> 0, growthRate |-> 0,
     burnout |-> [burnoutLevel |-> "none", consecutiveMonths |-> 0, penalty |-> 0],
     usingPreviousMonthFallback |-> FALSE]

\* the fallback's growth rate taken at the current month
effectiveMonthIndex_current(useFallback, currentMonthIndex) == currentMonthIndex

\* the month whose hours the growth rate compares with their history
effectiveMonthIndex(useFallback, currentMonthIndex) ==
    IF useFallback THEN currentMonthIndex - 1 ELSE currentMonthIndex

\* the first pass on one clinician.  currentMonthIndex and dayOfMonth are read
\* from the clock once for the pass; avgMonthIndex is the month
\* calculate6MonthAverage reads from the clock for this clinician.
enrichOne(clinician, currentMonthIndex, dayOfMonth, avgMonthIndex) ==
    IF ~hasMonthlyHours(clinician) THEN enrichmentError @@ clinician
    ELSE
    LET monthlyHours == clinician.monthlyHours2025
        isEarlyInMonth == dayOfMonth <= EarlyDayLimit
        currentMonthRaw == safeArrayAccess(monthlyHours, currentMonthIndex, 0)
        isCurrentMonthEmpty == currentMonthRaw < SmallDataThreshold
        useFallback == isEarlyInMonth /\ isCurrentMonthEmpty
        currentMonth == IF useFallback
                        THEN safeArrayAccess(monthlyHours, currentMonthIndex - 1, 0)
                        ELSE currentMonthRaw
        sixMonthAvg == calculate6MonthAverage(monthlyHours, avgMonthIndex)
        growthRate == calculateGrowthRate(monthlyHours, currentMonthIndex,
                                          <<effectiveMonthIndex(useFallback, currentMonthIndex)>>)
        burnoutInfo == detectBurnout(monthlyHours, currentMonthIndex)
    IN [name |-> clinician.name,
        level |-> clinician.level,
        activeCases |-> clinician.activeCases,
        monthlyHours2025 |-> monthlyHours,
        currentMonth |-> ToFixed1(currentMonth, 1),
        sixMonthAverage |-> ToFixed1(sixMonthAvg[1], sixMonthAvg[2]),
        growthRate |-> ToFixed1(growthRate[1], growthRate[2]),
        burnout |-> burnoutInfo,
        usingPreviousMonthFallback |-> useFallback]

\* r with one more field
WithField(r, f, v) == (f :> v) @@ r

\* the record of a clinician whose second pass failed
loadBalancingError == [isOutlier |-> FALSE, consecutiveMonths |-> 0, penalty |-> 0]

\* detectLoadBalancing throws a TypeError: past its early return, the loop's
\* first round reads c.monthlyHours2025[monthIdx] of every clinician
detectLoadBalancingThrows(allClinicians, currentMonthIndex) ==
    /\ currentMonthIndex >= 1
    /\ \E i \in 1..Len(allClinicians) : ~hasMonthlyHours(allClinicians[i])

\* enrichWithAssignmentMetrics(cliniciansData) under a clock that shows
\* clock.monthIndex and clock.dayOfMonth at the start of the pass and month
\* avgReads[i] when calculate6MonthAverage runs for clinician i
enrichWithAssignmentMetrics(data, clock, avgReads) ==
    IF Len(data) = 0 THEN <<>>
    ELSE LET enrichedData ==
                 map([i \in 1..Len(data) |->
                     enrichOne(data[i], clock.monthIndex, clock.dayOfMonth, avgReads[i])])
             throws == detectLoadBalancingThrows(enrichedData, clock.monthIndex)
         IN map([i \in 1..Len(data) |->
                WithField(enrichedData[i], "loadBalancing",
                          IF throws THEN loadBalancingError
                          ELSE detectLoadBalancing(
                                   IF hasMonthlyHours(enrichedData[i])
                                   THEN enrichedData[i].monthlyHours2025
                                   ELSE <<>>,  \* undefined, and not read: the call returns early
                                   enrichedData, clock.monthIndex))])

(***************************************************************************)
(* scoring.js: calculateAssignmentScore (the three-argument definition)    *)
(***************************************************************************)
\* the value that stands for JavaScript's NaN; no score equals it
NaN == 0 - 1

RatReduce(r) ==
    LET g == Gcd(Abs(r[1]), r[2])
    IN IF g = 0 THEN r ELSE <<r[1] \div g, r[2] \div g>>

RatAdd(a, b) == RatReduce(<<a[1] * b[2] + b[1] * a[2], a[2] * b[2]>>)

RatScale(k, a) == RatReduce(<<k * a[1], a[2]>>)

\* the divisors.  baselineMaxActiveCases is <<>> for the default null and <<n>>
\* for a given n.  Hours are in tenths, so their floor of 1 is 10.
maxActiveCases(allClinicians, baselineMaxActiveCases) ==
    IF baselineMaxActiveCases # <<>> THEN baselineMaxActiveCases[1]
    ELSE MaxOfSeq([i \in 1..Len(allClinicians) |-> allClinicians[i].activeCases], 1)

maxCurrentMonth(allClinicians) ==
    MaxOfSeq([i \in 1..Len(allClinicians) |-> allClinicians[i].currentMonth], 10)

maxSixMonthAvg(allClinicians) ==
    MaxOfSeq([i \in 1..Len(allClinicians) |-> allClinicians[i].sixMonthAverage], 10)

\* the four quotients with the maxima and the growth range taken over the
\* clinicians of the clinician's own level
normalizedTerms_withinLevel(clinician, allClinicians, baselineMaxActiveCases) ==
    LET sameLevel == SelectSeq(allClinicians, LAMBDA c : c.level = clinician.level)
        growthRates == [i \in 1..Len(sameLevel) |-> sameLevel[i].growthRate]
        maxGrowthRate == MaxOfSeq(growthRates, MinOfSeq(growthRates))
        minGrowthRate == MinOfSeq(growthRates)
        growthRateRange == maxGrowthRate - minGrowthRate
    IN [activeCases |->
            <<clinician.activeCases, maxActiveCases(sameLevel, baselineMaxActiveCases)>>,
        currentMonth |-> <<clinician.currentMonth, maxCurrentMonth(sameLevel)>>,
        sixMonthAvg |-> <<clinician.sixMonthAverage, maxSixMonthAvg(sameLevel)>>,
        growthRate |-> IF growthRateRange > 0
                       THEN <<clinician.growthRate - minGrowthRate, growthRateRange>>
                       ELSE <<0, 1>>]

\* the four normalized values, each a quotient <<n, d>>; d = 0 stands for a
\* division by zero
normalizedTerms(clinician, allClinicians, baselineMaxActiveCases) ==
    LET growthRates == [i \in 1..Len(allClinicians) |-> allClinicians[i].growthRate]
        maxGrowthRate == MaxOfSeq(growthRates, MinOfSeq(growthRates))
        minGrowthRate == MinOfSeq(growthRates)
        growthRateRange == maxGrowthRate - minGrowthRate
    IN [activeCases |->
            <<clinician.activeCases, maxActiveCases(allClinicians, baselineMaxActiveCases)>>,
        currentMonth |-> <<clinician.currentMonth, maxCurrentMonth(allClinicians)>>,
        sixMonthAvg |-> <<clinician.sixMonthAverage, maxSixMonthAvg(allClinicians)>>,
        growthRate |-> IF growthRateRange > 0
                       THEN <<clinician.growthRate - minGrowthRate, growthRateRange>>
                       ELSE <<0, 1>>]

\* the weighted sum rounded without the cap at 100
roundedScore_uncapped(t, burnoutPenalty, loadBalancingPenalty) ==
    LET baseScore == RatAdd(RatAdd(RatScale(30, t.activeCases), RatScale(30, t.currentMonth)),
                            RatAdd(RatScale(30, t.sixMonthAvg), RatScale(10, t.growthRate)))
    IN MathRound(baseScore[1] + (burnoutPenalty + loadBalancingPenalty) * baseScore[2],
                 baseScore[2])

\* the weights 40/25/25/10 of the two-argument calculateAssignmentScore
roundedScore_oldWeights(t, burnoutPenalty, loadBalancingPenalty) ==
    LET baseScore == RatAdd(RatAdd(RatScale(40, t.activeCases), RatScale(25, t.currentMonth)),
                            RatAdd(RatScale(25, t.sixMonthAvg), RatScale(10, t.growthRate)))
        finalScore == <<baseScore[1] + (burnoutPenalty + loadBalancingPenalty) * baseScore[2],
                        baseScore[2]>>
    IN IF finalScore[1] <= ScoreCap * finalScore[2]
       THEN MathRound(finalScore[1], finalScore[2])
       ELSE MathRound(ScoreCap, 1)

\* Math.round(Math.min(baseScore + penalties, 100)) of the weighted sum
roundedScore(t, burnoutPenalty, loadBalancingPenalty) ==
    LET baseScore == RatAdd(RatAdd(RatScale(30, t.activeCases), RatScale(30, t.currentMonth)),
                            RatAdd(RatScale(30, t.sixMonthAvg), RatScale(10, t.growthRate)))
        finalScore == <<baseScore[1] + (burnoutPenalty + loadBalancingPenalty) * baseScore[2],
                        baseScore[2]>>
    IN IF finalScore[1] <= ScoreCap * finalScore[2]
       THEN MathRound(finalScore[1], finalScore[2])
       ELSE MathRound(ScoreCap, 1)

calculateAssignmentScore(clinician, allClinicians, baselineMaxActiveCases) ==
    LET t == normalizedTerms(clinician, allClinicians, baselineMaxActiveCases)
        quotients == {t.activeCases, t.currentMonth, t.sixMonthAvg, t.growthRate}
        burnoutPenalty ==
            IF "burnout" \in DOMAIN clinician THEN clinician.burnout.penalty ELSE 0
        loadBalancingPenalty ==
            IF "loadBalancing" \in DOMAIN clinician THEN clinician.loadBalancing.penalty ELSE 0
    IN IF \E q \in quotients : q[2] = 0 /\ q[1] = 0 THEN NaN
       ELSE IF \E q \in quotients : q[2] = 0 THEN ScoreCap
       ELSE roundedScore(t, burnoutPenalty, loadBalancingPenalty)

(***************************************************************************)
(* scoring.js: recommendation tier                                         *)
(***************************************************************************)
\* thresholds exclusive at 40 and 70
getRecommendationLevel_exclusive(score) ==
    IF score < 40 THEN "high"
    ELSE IF score < 70 THEN "medium"
    ELSE "low"

\* (a comparison with NaN is false)
getRecommendationLevel(score) ==
    IF score # NaN /\ score <= 40 THEN "high"
    ELSE IF score # NaN /\ score <= 70 THEN "medium"
    ELSE "low"

(***************************************************************************)
(* scoring.js: sortByAssignmentScore                                       *)
(***************************************************************************)
\* a.assignmentScore - b.assignmentScore < 0 (false when a score is NaN)
scoreBefore(a, b) ==
    a.assignmentScore # NaN /\ b.assignmentScore # NaN /\ a.assignmentScore < b.assignmentScore

\* sorted with x put in before the first record that x does not follow
insertBeforeEqual(sorted, x) ==
    LET before == {i \in 1..Len(sorted) : scoreBefore(sorted[i], x)}
        k == Cardinality(before)
    IN SubSeq(sorted, 1, k) \o <<x>> \o SubSeq(sorted, k + 1, Len(sorted))

\* sorted (ascending) with x put in behind the records it does not precede
insertAfterEqual(sorted, x) ==
    LET notAfter == {i \in 1..Len(sorted) : ~scoreBefore(x, sorted[i])}
        k == Cardinality(notAfter)
    IN SubSeq(sorted, 1, k) \o <<x>> \o SubSeq(sorted, k + 1, Len(sorted))

\* a sort that reverses the records of equal score
RECURSIVE sortByAssignmentScore_reversingTies(_)
sortByAssignmentScore_reversingTies(clinicians) ==
    IF clinicians = <<>> THEN <<>>
    ELSE insertBeforeEqual(
             sortByAssignmentScore_reversingTies(SubSeq(clinicians, 1, Len(clinicians) - 1)),
             clinicians[Len(clinicians)])

\* [...clinicians].sort((a, b) => a.assignmentScore - b.assignmentScore): a
\* new array; Array.prototype.sort is stable
RECURSIVE sortByAssignmentScore(_)
sortByAssignmentScore(clinicians) ==
    IF clinicians = <<>> THEN <<>>
    ELSE insertAfterEqual(sortByAssignmentScore(SubSeq(clinicians, 1, Len(clinicians) - 1)),
                          clinicians[Len(clinicians)])

(***************************************************************************)
(* App.jsx: the memoised scoring pass                                      *)
(***************************************************************************)
\* the maximum without the floor of 1
baselineMaxActiveCases_unfloored(enrichedData) ==
    MaxOfSeq([i \in 1..Len(enrichedData) |-> enrichedData[i].activeCases], 0)

\* Math.max(...enrichedData.map(c => c.activeCases), 1)
baselineMaxActiveCases(enrichedData) ==
    MaxOfSeq([i \in 1..Len(enrichedData) |-> enrichedData[i].activeCases], 1)

\* a rescaling in proportion to the time window: Math.round(activeCases *
\* timeWindow / 2)
adjustedActiveCases_linear(activeCases, halfMonths) == MathRound(activeCases * halfMonths, 4)

\* Math.round(activeCases * Math.sqrt(timeWindow / 2)), the time window in
\* half months: the r with r - 1/2 <= activeCases * sqrt(halfMonths) / 2 < r + 1/2
adjustedActiveCases(activeCases, halfMonths) ==
    CHOOSE r \in 0..(2 * activeCases) :
        /\ (2 * r - 1 <= 0 \/ (2 * r - 1) * (2 * r - 1) <= activeCases * activeCases * halfMonths)
        /\ activeCases * activeCases * halfMonths < (2 * r + 1) * (2 * r + 1)

\* cliniciansWithScores: enrichment, active-case rescaling, scoring against the
\* baseline maximum, recommendation tier
scoringPass(data, halfMonths, clock, avgReads) ==
    IF Len(data) = 0 THEN <<>>
    ELSE LET enrichedData == enrichWithAssignmentMetrics(data, clock, avgReads)
             baseline == baselineMaxActiveCases(enrichedData)
             adjustedData ==
                 map([i \in 1..Len(enrichedData) |->
                     [enrichedData[i] EXCEPT
                         !.activeCases = adjustedActiveCases(@, halfMonths)]])
         IN map([i \in 1..Len(adjustedData) |->
                LET assignmentScore ==
                        calculateAssignmentScore(adjustedData[i], adjustedData, <<baseline>>)
                IN WithField(WithField(adjustedData[i], "assignmentScore", assignmentScore),
                             "recommendationLevel", getRecommendationLevel(assignmentScore))])

\* the records shown for the selected level
atLevel(clinicians, level) ==
    IF level = "all" THEN clinicians
    ELSE SelectSeq(clinicians, LAMBDA c : c.level = level)

\* a memo that scores the records of the selected level among themselves
filteredCliniciansMemo_scoringAfterFilter(scored, level) ==
    LET filtered == atLevel(scored, level)
        rescored ==
            map([i \in 1..Len(filtered) |->
                LET assignmentScore == calculateAssignmentScore(filtered[i], filtered, <<>>)
                IN [filtered[i] EXCEPT
                       !.assignmentScore = assignmentScore,
                       !.recommendationLevel = getRecommendationLevel(assignmentScore)]])
    IN sortByAssignmentScore(rescored)

\* filteredClinicians: the scored records of the selected level, sorted
filteredCliniciansMemo(scored, level) ==
    sortByAssignmentScore(atLevel(scored, level))

(***************************************************************************)
(* Calls of the exported functions                                         *)
(***************************************************************************)
\* all sequences over S of length lo..hi
SeqsOf(S, lo, hi) == UNION {[1..n -> S] : n \in lo..hi}

BurnoutHours == {0, 10, 20, 50}
GrowthHours == {0, 10, 30}

BurnoutCalls ==
    {[fn |-> "detectBurnout", monthlyHours |-> h, currentMonthIndex |-> c] :
        h \in SeqsOf(BurnoutHours, 1, MaxBurnoutLen), c \in (-1)..MaxBurnoutLen}

\* a call with the default effectiveMonthIndex, one with the current month
\* given as effective month, and the fallback's call (effective = current - 1)
GrowthArgs(m) ==
    {[currentMonthIndex |-> m, effectiveMonthIndex |-> <<>>],
     [currentMonthIndex |-> m, effectiveMonthIndex |-> <<m>>],
     [currentMonthIndex |-> m + 1, effectiveMonthIndex |-> <<m>>]}

GrowthCall(h, a) ==
    [fn |-> "calculateGrowthRate", monthlyHours |-> h,
     currentMonthIndex |-> a.currentMonthIndex,
     effectiveMonthIndex |-> a.effectiveMonthIndex]

LevelCalls ==
    {[fn |-> "getRecommendationLevel", score |-> s] : s \in 0..ScoreCap}

\* the App before its data is loaded
AppIdle ==
    /\ cliniciansData = <<>>
    /\ timeWindow = 4
    /\ selectedLevel = "all"
    /\ now = [monthIndex |-> 0, dayOfMonth |-> 1]
    /\ cliniciansWithScores = <<>>
    /\ filteredClinicians = <<>>

appVars ==
    <<cliniciansData, timeWindow, selectedLevel, now, cliniciansWithScores, filteredClinicians>>

ReturnDetectBurnout ==
    /\ call.fn = "detectBurnout"
    /\ ret = <<>>
    /\ ret' = <<detectBurnoutCall(call)>>
    /\ UNCHANGED <<appVars, call>>

ReturnCalculateGrowthRate ==
    /\ call.fn = "calculateGrowthRate"
    /\ ret = <<>>
    /\ ret' = <<calculateGrowthRate(call.monthlyHours, call.currentMonthIndex,
                                    call.effectiveMonthIndex)>>
    /\ UNCHANGED <<appVars, call>>

ReturnGetRecommendationLevel ==
    /\ call.fn = "getRecommendationLevel"
    /\ ret = <<>>
    /\ ret' = <<getRecommendationLevel(call.score)>>
    /\ UNCHANGED <<appVars, call>>

InitBurnout == AppIdle /\ call \in BurnoutCalls /\ ret = <<>>
SpecBurnout == InitBurnout /\ [][ReturnDetectBurnout]_vars

InitGrowth ==
    /\ AppIdle
    /\ \E h \in SeqsOf(GrowthHours, MaxGrowthLen - 1, MaxGrowthLen) :
          \E m \in (-1)..(Len(h) + 1) :
             \E a \in GrowthArgs(m) : call = GrowthCall(h, a)
    /\ ret = <<>>
SpecGrowth == InitGrowth /\ [][ReturnCalculateGrowthRate]_vars

InitLevel == AppIdle /\ call \in LevelCalls /\ ret = <<>>
SpecLevel == InitLevel /\ [][ReturnGetRecommendationLevel]_vars

(***************************************************************************)
(* The App: data load and time-window slider, the two dependencies of the  *)
(* cliniciansWithScores memo                                               *)
(***************************************************************************)
\* monthly series (January first) and active-case counts of the rosters
ScoringSeries == {<<0, 0, 0, 0>>, <<20, 50, 50, 50>>, <<50, 50, 20, 4>>}
CaseValues == {0, 1, 3}

Profiles == [monthlyHours2025 : ScoringSeries, activeCases : CaseValues]

\* the slider: 1 to 3 months in steps of a half, in half months
TimeWindows == 2..6

Clocks == [monthIndex : 0..MaxMonthIndex, dayOfMonth : {EarlyDayLimit, EarlyDayLimit + 1}]

\* the records fetchClinicianData hands over for the profiles r
Roster(r) ==
    map([i \in 1..Len(r) |->
        [name |-> i, level |-> "junior", activeCases |-> r[i].activeCases,
         monthlyHours2025 |-> r[i].monthlyHours2025]])

\* the clock does not move during a pass
SteadyReads(data, clock) == map([i \in 1..Len(data) |-> clock.monthIndex])

InitApp ==
    /\ cliniciansData = <<>>
    /\ timeWindow = 4
    /\ selectedLevel = "all"
    /\ now \in Clocks
    /\ cliniciansWithScores = <<>>
    /\ filteredClinicians = <<>>
    /\ call = [fn |-> "App"]
    /\ ret = <<>>

\* the mount effect: setCliniciansData(result.clinicians), then the memos
LoadData ==
    /\ call.fn = "App"
    /\ cliniciansData = <<>>
    /\ \E n \in 1..MaxClinicians :
          \E r \in [1..n -> Profiles] :
             /\ cliniciansData' = Roster(r)
             /\ cliniciansWithScores' =
                    scoringPass(Roster(r), timeWindow, now, SteadyReads(r, now))
             /\ filteredClinicians' =
                    filteredCliniciansMemo(cliniciansWithScores', selectedLevel)
    /\ UNCHANGED <<timeWindow, selectedLevel, now, call, ret>>

\* a slider step whose rescaling writes the adjusted count into the roster's
\* records
SetTimeWindow_rescalingInPlace ==
    /\ call.fn = "App"
    /\ \E w \in TimeWindows \ {timeWindow} :
          /\ timeWindow' = w
          /\ cliniciansWithScores' =
                 scoringPass(cliniciansData, w, now, SteadyReads(cliniciansData, now))
          /\ filteredClinicians' = filteredCliniciansMemo(cliniciansWithScores', selectedLevel)
          /\ cliniciansData' =
                 map([i \in 1..Len(cliniciansData) |->
                     [cliniciansData[i] EXCEPT !.activeCases = adjustedActiveCases(@, w)]])
    /\ UNCHANGED <<selectedLevel, now, call, ret>>

\* the slider's onChange: setTimeWindow(w), then the memos
SetTimeWindow ==
    /\ call.fn = "App"
    /\ \E w \in TimeWindows \ {timeWindow} :
          /\ timeWindow' = w
          /\ cliniciansWithScores' =
                 scoringPass(cliniciansData, w, now, SteadyReads(cliniciansData, now))
          /\ filteredClinicians' = filteredCliniciansMemo(cliniciansWithScores', selectedLevel)
    /\ UNCHANGED <<cliniciansData, selectedLevel, now, call, ret>>

NextScoring == LoadData \/ SetTimeWindow
SpecScoring == InitApp /\ [][NextScoring]_vars

(***************************************************************************)
(* Properties                                                              *)
(***************************************************************************)
\* the sum of the hours at the (0-based) indexes I
RECURSIVE SumAt(_, _)
SumAt(h, I) ==
    IF I = {} THEN 0
    ELSE LET i == CHOOSE j \in I : TRUE IN h[i + 1] + SumAt(h, I \ {i})

Returned(fn) == call.fn = fn /\ ret # <<>>

\* a better tier has a lower rank
LevelRank(level) == CASE level = "high" -> 0 [] level = "medium" -> 1 [] level = "low" -> 2

\* C3: getRecommendationLevel maps a score by fixed thresholds: <= 40 high,
\* 41..70 medium, > 70 low; every integer score 0..100 gets exactly one tier,
\* and a higher score never gets a better tier.
C3_RecommendationThresholds ==
    Returned("getRecommendationLevel") =>
        /\ ret[1] \in {"high", "medium", "low"}
        /\ (ret[1] = "high") <=> (call.score <= 40)
        /\ (ret[1] = "medium") <=> (call.score \in 41..70)
        /\ (ret[1] = "low") <=> (call.score > 70)
        /\ \A s \in 0..ScoreCap :
              s >= call.score => LevelRank(getRecommendationLevel(s)) >= LevelRank(ret[1])

C3_Witness ==
    /\ Returned("getRecommendationLevel")
    /\ call.score = 40
    /\ ret[1] = "high"

\* C7: calculateGrowthRate at effective month m compares hours[m] with the mean
\* of the up-to-6 existing months strictly before m (indexes max(0, m-6)..m-1):
\* with no such month or a zero mean the result is 100 when hours[m] > 0 and 0
\* otherwise; else it is ((hours[m] - baseline) / baseline) * 100.
C7_GrowthRate ==
    Returned("calculateGrowthRate") =>
        LET h == call.monthlyHours
            m == IF call.effectiveMonthIndex = <<>> THEN call.currentMonthIndex
                 ELSE call.effectiveMonthIndex[1]
            cur == IF m >= 0 /\ m < Len(h) THEN h[m + 1] ELSE 0
            I == {i \in Max2(0, m - 6)..(m - 1) : i < Len(h)}
            S == SumAt(h, I)
            k == Cardinality(I)
            r == ret[1]
        IN /\ r[2] > 0
           /\ IF I = {} \/ S = 0
              THEN r[1] = (IF cur > 0 THEN 100 ELSE 0) * r[2]
              ELSE r[1] * S = 100 * (cur * k - S) * r[2]

\* a call whose 6-month history leaves out a worked month 0 and that compares
\* a worked month 7
C7_Witness ==
    /\ Returned("calculateGrowthRate")
    /\ call.effectiveMonthIndex = <<7>>
    /\ call.monthlyHours = <<30, 10, 10, 10, 10, 10, 10, 30>>
    /\ ret[1][1] * 1 = 200 * ret[1][2]

\* C8: for a current month index c >= 2 (in the series, with a positive month
\* in 0..c), the consecutive count of detectBurnout is the length of the
\* maximal run of months c, c-1, ... with hours >= min(1.25 * baseline, 45),
\* baseline the mean of the positive hours of months 0..c.  The series
\* [10,10,10,20,20] at c = 4 gives threshold 17.5, count 2, 'caution', penalty 3.
C8_BurnoutCount ==
    Returned("detectBurnout") =>
        LET h == call.monthlyHours
            c == call.currentMonthIndex
            r == ret[1]
        IN /\ (c >= 2 /\ c < Len(h) /\ \E i \in 0..c : h[i + 1] > 0) =>
                LET P == {i \in 0..c : h[i + 1] > 0}
                    S == SumAt(h, P)
                    k == Cardinality(P)
                    High(i) == IF 5 * S <= 4 * k * 45
                               THEN 4 * k * h[i + 1] >= 5 * S
                               ELSE h[i + 1] >= 45
                    n == r.consecutiveHighMonths
                IN /\ n \in 0..(c + 1)
                   /\ \A j \in 0..(n - 1) : High(c - j)
                   /\ n <= c => ~High(c - n)
           /\ (h = <<10, 10, 10, 20, 20>> /\ c = 4) =>
                r = [consecutiveHighMonths |-> 2, burnoutLevel |-> "caution",
                     penalty |-> 3, threshold |-> 175]

C8_Witness ==
    /\ Returned("detectBurnout")
    /\ call.monthlyHours = <<10, 10, 10, 20, 20>>
    /\ call.currentMonthIndex = 4
    /\ ret[1].consecutiveHighMonths = 2

MaxOver(S) == CHOOSE m \in S : \A y \in S : y <= m
MinOver(S) == CHOOSE m \in S : \A y \in S : m <= y

\* n / d in lowest terms, n >= 0 and d > 0
Frac(n, d) == LET g == Gcd(n, d) IN <<n \div g, d \div g>>

\* round(min(100, 100 * (0.30 a + 0.30 c + 0.30 s + 0.10 g) + penalty)) for the
\* record c in the cohort with active-cases divisor maxAC: the four weighted
\* terms are split into their whole parts and their fractions over D
ExpectedScore(c, cohort, maxAC, penalty) ==
    LET J == DOMAIN cohort
        maxCM == MaxOver({cohort[j].currentMonth : j \in J} \cup {10})
        maxSM == MaxOver({cohort[j].sixMonthAverage : j \in J} \cup {10})
        G == {cohort[j].growthRate : j \in J}
        range == MaxOver(G) - MinOver(G)
        t == <<Frac(30 * c.activeCases, maxAC),
               Frac(30 * c.currentMonth, maxCM),
               Frac(30 * c.sixMonthAverage, maxSM),
               IF range > 0 THEN Frac(10 * (c.growthRate - MinOver(G)), range) ELSE <<0, 1>>>>
        whole == (t[1][1] \div t[1][2]) + (t[2][1] \div t[2][2])
                   + (t[3][1] \div t[3][2]) + (t[4][1] \div t[4][2]) + penalty
        D == t[1][2] * t[2][2] * t[3][2] * t[4][2]
        F == (t[1][1] % t[1][2]) * (D \div t[1][2]) + (t[2][1] % t[2][2]) * (D \div t[2][2])
               + (t[3][1] % t[3][2]) * (D \div t[3][2]) + (t[4][1] % t[4][2]) * (D \div t[4][2])
    IN IF whole + (F \div D) >= 100 THEN 100
       ELSE whole + ((2 * F + D) \div (2 * D))

\* the record without its burnout and loadBalancing fields
WithoutDetections(c) == [k \in DOMAIN c \ {"burnout", "loadBalancing"} |-> c[k]]

\* C1: every clinician's finalScore produced by the scoring pass is an integer
\* with 0 <= finalScore <= 100, for every roster and every time window.
C1_ScoreBounds ==
    \A i \in DOMAIN cliniciansWithScores :
        cliniciansWithScores[i].assignmentScore \in 0..ScoreCap

\* a full roster at the 3-month window with a score held at the cap and a
\* score of 0
C1_Witness ==
    /\ Len(cliniciansWithScores) = MaxClinicians
    /\ timeWindow = 6
    /\ \E i \in DOMAIN cliniciansWithScores :
          /\ cliniciansWithScores[i].assignmentScore = ScoreCap
          /\ cliniciansWithScores[i].activeCases > baselineMaxActiveCases(cliniciansData)
    /\ \E i \in DOMAIN cliniciansWithScores : cliniciansWithScores[i].assignmentScore = 0

\* C2: calculateAssignmentScore returns round(min(100, base + burnoutPenalty +
\* loadBalancingPenalty)), base = 100 * (0.30 activeCases/maxActiveCases + 0.30
\* currentMonth/maxCurrentMonth + 0.30 sixMonthAverage/maxSixMonthAvg + 0.10
\* normalizedGrowth), normalizedGrowth = (growth - min)/(max - min) when the
\* cohort's growth range is > 0 and 0 otherwise; a missing burnout or
\* loadBalancing record contributes penalty 0.  Stated for the pass's call
\* (baseline override), for the call with the recomputed maximum, and for the
\* record without its detection fields.
C2_ScoreFormula ==
    \A i \in DOMAIN cliniciansWithScores :
        LET c == cliniciansWithScores[i]
            cohort == cliniciansWithScores
            penalty == c.burnout.penalty + c.loadBalancing.penalty
            baseline == MaxOver({cliniciansData[j].activeCases : j \in DOMAIN cliniciansData}
                                   \cup {1})
            cohortMax == MaxOver({cohort[j].activeCases : j \in DOMAIN cohort} \cup {1})
        IN /\ c.assignmentScore = ExpectedScore(c, cohort, baseline, penalty)
           /\ calculateAssignmentScore(c, cohort, <<>>)
                 = ExpectedScore(c, cohort, cohortMax, penalty)
           /\ calculateAssignmentScore(WithoutDetections(c), cohort, <<>>)
                 = ExpectedScore(c, cohort, cohortMax, 0)

\* a clinician with both penalties, in a cohort with a growth range, whose
\* score is below the cap
C2_Witness ==
    \E i \in DOMAIN cliniciansWithScores :
        LET c == cliniciansWithScores[i]
        IN /\ c.burnout.penalty > 0
           /\ c.loadBalancing.penalty > 0
           /\ c.assignmentScore < ScoreCap
           /\ \E j \in DOMAIN cliniciansWithScores :
                 cliniciansWithScores[j].growthRate # c.growthRate

\* C5: holding every other clinician and all other fields fixed, increasing one
\* clinician's activeCases never decreases that clinician's normalized
\* active-cases term nor that clinician's finalScore, in the scoring pass
\* (baseline override) and in a call with the recomputed cohort maximum.
C5_Monotonicity ==
    \A i \in DOMAIN cliniciansData :
        \A v \in CaseValues :
            v > cliniciansData[i].activeCases =>
                LET raised == [cliniciansData EXCEPT ![i].activeCases = v]
                    before == cliniciansWithScores
                    after == scoringPass(raised, timeWindow, now, SteadyReads(raised, now))
                    termBefore == normalizedTerms(before[i], before,
                                      <<baselineMaxActiveCases(cliniciansData)>>).activeCases
                    termAfter == normalizedTerms(after[i], after,
                                      <<baselineMaxActiveCases(raised)>>).activeCases
                    freeBefore == normalizedTerms(before[i], before, <<>>).activeCases
                    freeAfter == normalizedTerms(after[i], after, <<>>).activeCases
                IN /\ termAfter[1] * termBefore[2] >= termBefore[1] * termAfter[2]
                   /\ after[i].assignmentScore >= before[i].assignmentScore
                   /\ freeAfter[1] * freeBefore[2] >= freeBefore[1] * freeAfter[2]
                   /\ calculateAssignmentScore(after[i], after, <<>>)
                         >= calculateAssignmentScore(before[i], before, <<>>)

\* C6: if every clinician has activeCases = 0 the active-cases divisor is 1 and
\* every clinician's normalized active-cases term is 0; the current-month and
\* six-month-average divisors are always >= 1 (10 tenths), so no scoring pass
\* divides by zero.
C6_NormalizationFloor ==
    \A i \in DOMAIN cliniciansWithScores :
        LET c == cliniciansWithScores[i]
            baseline == baselineMaxActiveCases(cliniciansData)
            t == normalizedTerms(c, cliniciansWithScores, <<baseline>>)
            free == normalizedTerms(c, cliniciansWithScores, <<>>)
        IN /\ t.activeCases[2] >= 1
           /\ free.activeCases[2] >= 1
           /\ t.currentMonth[2] >= 10
           /\ t.sixMonthAvg[2] >= 10
           /\ t.growthRate[2] >= 1
           /\ c.assignmentScore # NaN
           /\ (\A j \in DOMAIN cliniciansData : cliniciansData[j].activeCases = 0) =>
                 /\ baseline = 1
                 /\ t.activeCases = <<0, 1>>
                 /\ free.activeCases = <<0, 1>>

\* a full roster without active cases and without hours: all three divisors
\* are at their floor
C6_Witness ==
    /\ Len(cliniciansWithScores) = MaxClinicians
    /\ \A i \in DOMAIN cliniciansWithScores :
          /\ cliniciansData[i].activeCases = 0
          /\ cliniciansWithScores[i].currentMonth = 0
          /\ cliniciansWithScores[i].sixMonthAverage = 0
          /\ cliniciansWithScores[i].assignmentScore = 0

\* C10: if fewer than 3 clinicians of the cohort have positive hours in the
\* current month, detectLoadBalancing yields consecutive count 0, tier 'none'
\* and penalty 0 for every clinician: stated of the loadBalancing record the
\* enrichment attaches (loadBalancingProtection.js) and of the dateUtils.js
\* definition on the same arguments.
C10_CohortSizeGuard ==
    LET withHours == {j \in DOMAIN cliniciansData :
                         safeArrayAccess(cliniciansData[j].monthlyHours2025,
                                         now.monthIndex, 0) > 0}
    IN Cardinality(withHours) < MIN_POPULATION =>
          \A i \in DOMAIN cliniciansWithScores :
              /\ detectLoadBalancing_dateUtils(cliniciansData[i].monthlyHours2025,
                                               cliniciansData, now.monthIndex)
                    = LoadBalancingNone
              /\ cliniciansWithScores[i].loadBalancing = LoadBalancingNone

(***************************************************************************)
(* Calls of detectLoadBalancing: the function of loadBalancingProtection.js *)
(* and the function of the same name in dateUtils.js                       *)
(***************************************************************************)
\* monthly series of the cohorts (January first)
LoadBalancingSeries ==
    {<<0, 0, 0, 0>>, <<10, 10, 10, 10>>, <<50, 50, 50, 50>>, <<10, 50, 50, 50>>,
     <<50, 10, 0, 50>>}

\* the cohort records for the series r
Cohort(r) == map([i \in 1..Len(r) |-> [monthlyHours2025 |-> r[i]]])

LoadBalancingFns == {"detectLoadBalancing", "dateUtils.detectLoadBalancing"}

\* a call with the hours of one clinician of the cohort, as the second pass of
\* enrichWithAssignmentMetrics makes it
LoadBalancingCall(fn, r, k, c) ==
    [fn |-> fn, monthlyHours |-> r[k], allClinicians |-> Cohort(r), currentMonthIndex |-> c]

InitLoadBalancing ==
    /\ AppIdle
    /\ \E n \in 1..MaxCohort :
          \E r \in [1..n -> LoadBalancingSeries] :
             \E k \in 1..n :
                \E c \in (-1)..MaxCohortMonth :
                   \E fn \in LoadBalancingFns : call = LoadBalancingCall(fn, r, k, c)
    /\ ret = <<>>

ReturnDetectLoadBalancing ==
    /\ call.fn = "detectLoadBalancing"
    /\ ret = <<>>
    /\ ret' = <<detectLoadBalancing(call.monthlyHours, call.allClinicians,
                                    call.currentMonthIndex)>>
    /\ UNCHANGED <<appVars, call>>

ReturnDetectLoadBalancing_dateUtils ==
    /\ call.fn = "dateUtils.detectLoadBalancing"
    /\ ret = <<>>
    /\ ret' = <<detectLoadBalancing_dateUtils(call.monthlyHours, call.allClinicians,
                                              call.currentMonthIndex)>>
    /\ UNCHANGED <<appVars, call>>

NextLoadBalancing == ReturnDetectLoadBalancing \/ ReturnDetectLoadBalancing_dateUtils
SpecLoadBalancing == InitLoadBalancing /\ [][NextLoadBalancing]_vars

(***************************************************************************)
(* Properties of detectLoadBalancing                                       *)
(***************************************************************************)
\* the clinicians of the call's cohort with hours in month m (0-based)
WithHoursIn(m) ==
    {j \in DOMAIN call.allClinicians :
        m >= 0 /\ m < Len(call.allClinicians[j].monthlyHours2025)
               /\ call.allClinicians[j].monthlyHours2025[m + 1] > 0}

CohortHours(j, m) == call.allClinicians[j].monthlyHours2025[m + 1]

RECURSIVE SumOver(_, _, _)
SumOver(J, m, square) ==
    IF J = {} THEN 0
    ELSE LET j == CHOOSE x \in J : TRUE
             h == CohortHours(j, m)
         IN (IF square THEN h * h ELSE h) + SumOver(J \ {j}, m, square)

\* the call's clinician has hours in month m that are >= mean + 1.5 * stdDev
\* of the cohort's positive hours of that month (population deviation)
OutlierIn(m) ==
    LET h == IF m >= 0 /\ m < Len(call.monthlyHours) THEN call.monthlyHours[m + 1] ELSE 0
        J == WithHoursIn(m)
        k == Cardinality(J)
        S == SumOver(J, m, FALSE)
        Q == SumOver(J, m, TRUE)
    IN /\ h > 0
       /\ k * h >= S
       /\ 4 * (k * h - S) * (k * h - S) >= 9 * (k * Q - S * S)

\* the positive hours of month m are all the same (standard deviation 0)
ZeroDeviationIn(m) ==
    /\ WithHoursIn(m) # {}
    /\ \A i, j \in WithHoursIn(m) : CohortHours(i, m) = CohortHours(j, m)

\* C11: a month of the backward scan in which the positive-hours cohort has
\* standard deviation exactly 0 is not counted for any clinician and ends the
\* scan: the count is at most the number of months after the latest such month.
C11_ZeroDeviationStops ==
    (Returned("detectLoadBalancing") /\ call.currentMonthIndex >= 1) =>
        \A z \in 0..call.currentMonthIndex :
            ZeroDeviationIn(z) =>
                ret[1].consecutiveHighLoadMonths <= call.currentMonthIndex - z

C13_LoadBalancingTierTable ==
    (ret # <<>> /\ call.fn \in LoadBalancingFns) =>
        LET r == ret[1]
            n == r.consecutiveHighLoadMonths
        IN /\ n \in {0, 1} => (r.protectionLevel = "none" /\ r.penalty = 0)
           /\ n = 2 => (r.protectionLevel = "low" /\ r.penalty = 3)
           /\ n = 3 => (r.protectionLevel = "moderate" /\ r.penalty = 6)
           /\ n >= 4 => (r.protectionLevel = "high" /\ r.penalty = 10)
           /\ <<r.protectionLevel, r.penalty>> \in
                 {<<"none", 0>>, <<"low", 3>>, <<"moderate", 6>>, <<"high", 10>>}
           /\ DOMAIN r = {"consecutiveHighLoadMonths", "protectionLevel", "penalty"}

\* the dateUtils.js function returning the top tier for an outlier of four months
C13_Witness ==
    /\ ret # <<>>
    /\ call.fn = "dateUtils.detectLoadBalancing"
    /\ ret[1].consecutiveHighLoadMonths = 4
    /\ ret[1].protectionLevel = "high"

(***************************************************************************)
(* The App on a three-clinician example roster                             *)
(***************************************************************************)
ScenarioClinicians ==
    {[name |-> "A", level |-> "senior", activeCases |-> 20,
      monthlyHours2025 |-> <<50, 50, 50, 50, 50, 50>>],
     [name |-> "B", level |-> "junior", activeCases |-> 10,
      monthlyHours2025 |-> <<20, 20, 20, 20, 20, 20>>],
     [name |-> "C", level |-> "lead", activeCases |-> 2,
      monthlyHours2025 |-> <<5, 5, 5, 5, 5, 5>>]}

\* the three records in any order of the CSV rows
ScenarioRosters ==
    {r \in [1..3 -> ScenarioClinicians] : \A i, j \in 1..3 : r[i] = r[j] => i = j}

ScenarioClocks ==
    [monthIndex : 0..MaxScenarioMonth, dayOfMonth : {EarlyDayLimit, EarlyDayLimit + 1}]

InitScenario ==
    /\ cliniciansData = <<>>
    /\ timeWindow = 4
    /\ selectedLevel = "all"
    /\ now \in ScenarioClocks
    /\ cliniciansWithScores = <<>>
    /\ filteredClinicians = <<>>
    /\ call = [fn |-> "App"]
    /\ ret = <<>>

\* the mount effect on the example's CSV
LoadScenario ==
    /\ call.fn = "App"
    /\ cliniciansData = <<>>
    /\ \E r \in ScenarioRosters :
          /\ cliniciansData' = r
          /\ cliniciansWithScores' = scoringPass(r, timeWindow, now, SteadyReads(r, now))
          /\ filteredClinicians' = filteredCliniciansMemo(cliniciansWithScores', selectedLevel)
    /\ UNCHANGED <<timeWindow, selectedLevel, now, call, ret>>

NextScenario == LoadScenario \/ SetTimeWindow
SpecScenario == InitScenario /\ [][NextScenario]_vars

\* the scored record of the clinician called name
ScoredAs(name) ==
    cliniciansWithScores[CHOOSE i \in DOMAIN cliniciansWithScores :
                             cliniciansWithScores[i].name = name]

\* the names of the records of a sequence, in its order
NamesOf(records) == [i \in DOMAIN records |-> records[i].name]

InExampleMonth ==
    /\ cliniciansWithScores # <<>>
    /\ now = [monthIndex |-> 5, dayOfMonth |-> EarlyDayLimit + 1]
    /\ timeWindow = 4

\* C14: with current month index 5, no early-month fallback and time window 2,
\* the roster A (20 cases, 50 hours a month), B (10 cases, 20 hours), C (2
\* cases, 5 hours) gives A burnout 'severe' with penalty 15 (6 consecutive
\* months >= threshold 45) and final scores C < B < A, so the ascending
\* ranking is C, B, A.
C14_EndToEndScenario ==
    InExampleMonth =>
        /\ ScoredAs("A").burnout =
              [consecutiveHighMonths |-> 6, burnoutLevel |-> "severe", penalty |-> 15,
               threshold |-> 450]
        /\ ScoredAs("C").assignmentScore < ScoredAs("B").assignmentScore
        /\ ScoredAs("B").assignmentScore < ScoredAs("A").assignmentScore
        /\ NamesOf(sortByAssignmentScore(cliniciansWithScores)) = <<"C", "B", "A">>
        /\ \A i \in DOMAIN cliniciansWithScores :
              ~cliniciansWithScores[i].usingPreviousMonthFallback

\* the example with the CSV rows in the order A, B, C and A at the cap
C14_Witness ==
    /\ InExampleMonth
    /\ NamesOf(cliniciansData) = <<"A", "B", "C">>
    /\ ScoredAs("A").assignmentScore = ScoreCap
    /\ ScoredAs("B").assignmentScore = 39
    /\ ScoredAs("C").assignmentScore = 9

(***************************************************************************)
(* The App's level filter                                                  *)
(***************************************************************************)
\* the keys of levelLabels
LevelKeys == {"junior", "senior", "lead"}

\* the filter buttons: 'all' and one per level
LevelChoices == {"all"} \cup LevelKeys

LevelledProfiles ==
    [monthlyHours2025 : {<<20, 50, 50, 50>>, <<50, 50, 20, 4>>},
     activeCases : {1, 3}, level : LevelKeys]

\* the records fetchClinicianData hands over for the levelled profiles r
LevelledRoster(r) ==
    map([i \in 1..Len(r) |->
        [name |-> i, level |-> r[i].level, activeCases |-> r[i].activeCases,
         monthlyHours2025 |-> r[i].monthlyHours2025]])

LevelClocks == [monthIndex : {MaxMonthIndex}, dayOfMonth : {EarlyDayLimit, EarlyDayLimit + 1}]

InitLevels ==
    /\ cliniciansData = <<>>
    /\ timeWindow = 4
    /\ selectedLevel = "all"
    /\ now \in LevelClocks
    /\ cliniciansWithScores = <<>>
    /\ filteredClinicians = <<>>
    /\ call = [fn |-> "App"]
    /\ ret = <<>>

\* the mount effect on a roster of several levels
LoadLevelled ==
    /\ call.fn = "App"
    /\ cliniciansData = <<>>
    /\ \E n \in 1..MaxClinicians :
          \E r \in [1..n -> LevelledProfiles] :
             /\ cliniciansData' = LevelledRoster(r)
             /\ cliniciansWithScores' =
                    scoringPass(LevelledRoster(r), timeWindow, now, SteadyReads(r, now))
             /\ filteredClinicians' =
                    filteredCliniciansMemo(cliniciansWithScores', selectedLevel)
    /\ UNCHANGED <<timeWindow, selectedLevel, now, call, ret>>

\* a filter button's onClick: setSelectedLevel(level), then the
\* filteredClinicians memo (cliniciansWithScores keeps its value: neither of
\* its dependencies changed)
SelectLevel ==
    /\ call.fn = "App"
    /\ \E level \in LevelChoices \ {selectedLevel} :
          /\ selectedLevel' = level
          /\ filteredClinicians' = filteredCliniciansMemo(cliniciansWithScores, level)
    /\ UNCHANGED <<cliniciansData, timeWindow, now, cliniciansWithScores, call, ret>>

NextLevels == LoadLevelled \/ SelectLevel
SpecLevels == InitLevels /\ [][NextLevels]_vars

\* the position of the record called name in records
PositionOf(name, records) == CHOOSE i \in DOMAIN records : records[i].name = name

\* C15: sortByAssignmentScore returns a permutation of its input ordered
\* ascending by assignmentScore in which any two records with equal score
\* keep their original relative order, and it leaves the input array itself
\* unreordered.  (Its input is the level's share of cliniciansWithScores,
\* its result filteredClinicians; names are unique.)
C15_StableSort ==
    LET input == atLevel(cliniciansWithScores, selectedLevel)
        result == filteredClinicians
    IN /\ Len(result) = Len(input)
       /\ {result[i] : i \in DOMAIN result} = {input[i] : i \in DOMAIN input}
       /\ \A i, j \in DOMAIN result :
             i < j =>
                /\ result[i].assignmentScore <= result[j].assignmentScore
                /\ result[i].assignmentScore = result[j].assignmentScore =>
                      PositionOf(result[i].name, input) < PositionOf(result[j].name, input)
       /\ NamesOf(cliniciansWithScores) = NamesOf(cliniciansData)

\* three records listed of which the first two tie and stand, in the roster,
\* behind the third
C15_Witness ==
    /\ Len(filteredClinicians) = 3
    /\ filteredClinicians[1].assignmentScore = filteredClinicians[2].assignmentScore
    /\ filteredClinicians[2].assignmentScore < filteredClinicians[3].assignmentScore
    /\ NamesOf(filteredClinicians) = <<2, 3, 1>>
    /\ NamesOf(cliniciansWithScores) = <<1, 2, 3>>

\* the pass over the whole roster under the App's present state
WholeRosterPass ==
    scoringPass(cliniciansData, timeWindow, now, SteadyReads(cliniciansData, now))

\* C16: level filtering is applied only after scoring over the full roster:
\* for every selected level, each displayed clinician's finalScore and tier
\* equal the values computed with the whole roster as cohort, and changing
\* the selected level never changes any clinician's score (the scored
\* records are those of the whole-roster pass whatever level is selected).
C16_FilterAfterScoring ==
    /\ cliniciansWithScores = WholeRosterPass
    /\ {filteredClinicians[i].name : i \in DOMAIN filteredClinicians} =
          {cliniciansData[i].name : i \in {k \in DOMAIN cliniciansData :
              selectedLevel = "all" \/ cliniciansData[k].level = selectedLevel}}
    /\ \A i \in DOMAIN filteredClinicians :
          LET shown == filteredClinicians[i]
              whole == WholeRosterPass[PositionOf(shown.name, WholeRosterPass)]
          IN /\ shown.assignmentScore = whole.assignmentScore
             /\ shown.recommendationLevel = whole.recommendationLevel

\* one junior of a roster of three is shown, with a score other than the one
\* they would have among the juniors alone
C16_Witness ==
    /\ selectedLevel = "junior"
    /\ Len(cliniciansData) = 3
    /\ Len(filteredClinicians) = 1
    /\ filteredClinicians[1].assignmentScore #
          filteredCliniciansMemo_scoringAfterFilter(cliniciansWithScores, "junior")[1]
              .assignmentScore

\* records with every level set to level
WithLevels(records, level) == map([i \in DOMAIN records |-> [records[i] EXCEPT !.level = level]])

\* C19: the level tag never affects scoring: two rosters that are identical
\* except for clinicians' level values produce, for every clinician, the same
\* derived features, detection results, finalScore and recommendation tier
\* (every roster gives, level aside, the records of the roster in which all
\* are juniors, so any two rosters that differ in levels only agree).
C19_LevelNeverAffectsScoring ==
    WithLevels(cliniciansWithScores, "junior") =
        scoringPass(WithLevels(cliniciansData, "junior"), timeWindow, now,
                    SteadyReads(cliniciansData, now))

\* a junior, a senior and a lead with three different scores
C19_Witness ==
    /\ Len(cliniciansWithScores) = 3
    /\ {cliniciansWithScores[i].level : i \in 1..3} = LevelKeys
    /\ Cardinality({cliniciansWithScores[i].assignmentScore : i \in 1..3}) = 3

(***************************************************************************)
(* Calls of enrichWithAssignmentMetrics                                    *)
(***************************************************************************)
EnrichSeries ==
    {<<50, 50, 50, 50>>, <<50, 50, 50, 0>>, <<20, 50, 4, 0>>, <<10, 0, 30, 5>>, <<4, 30>>}

\* a row of the roster: a clinician with monthly hours, or one whose
\* monthlyHours2025 is undefined
EnrichRows == {<<h>> : h \in EnrichSeries} \cup {<<>>}

EnrichRoster(r) ==
    map([i \in 1..Len(r) |->
        IF r[i] = <<>> THEN [name |-> i, level |-> "junior", activeCases |-> 1]
        ELSE [name |-> i, level |-> "junior", activeCases |-> 1,
              monthlyHours2025 |-> r[i][1]]])

InitEnrich ==
    /\ cliniciansData = <<>>
    /\ timeWindow = 4
    /\ selectedLevel = "all"
    /\ now \in Clocks
    /\ cliniciansWithScores = <<>>
    /\ filteredClinicians = <<>>
    /\ \E n \in 1..MaxClinicians :
          \E r \in [1..n -> EnrichRows] :
             call = [fn |-> "enrichWithAssignmentMetrics", cliniciansData |-> EnrichRoster(r)]
    /\ ret = <<>>

ReturnEnrichWithAssignmentMetrics ==
    /\ call.fn = "enrichWithAssignmentMetrics"
    /\ ret = <<>>
    /\ ret' = <<enrichWithAssignmentMetrics(call.cliniciansData, now,
                                            SteadyReads(call.cliniciansData, now))>>
    /\ UNCHANGED <<appVars, call>>

SpecEnrich == InitEnrich /\ [][ReturnEnrichWithAssignmentMetrics]_vars

\* array[index], 0 where the array has no such index
HoursAt(array, index) == IF index + 1 \in DOMAIN array THEN array[index + 1] ELSE 0

\* C18: early-month fallback: for each clinician, usingFallback is true
\* exactly when the day of month is <= 7 and the value at the current month
\* index c is < 5; in that case currentMonthHours is the value at index c-1
\* and the growth rate is computed with effective month m = c-1; otherwise
\* currentMonthHours is the value at index c and growth uses m = c.  (A month
\* the array does not reach counts as 0 hours; hours are held in tenths.)
C18_EarlyMonthFallback ==
    Returned("enrichWithAssignmentMetrics") =>
        \A i \in DOMAIN ret[1] :
            hasMonthlyHours(call.cliniciansData[i]) =>
                LET hours == call.cliniciansData[i].monthlyHours2025
                    c == now.monthIndex
                    usingFallback == now.dayOfMonth <= 7 /\ HoursAt(hours, c) < 5
                    m == IF usingFallback THEN c - 1 ELSE c
                    growth == calculateGrowthRate(hours, c, <<m>>)
                IN /\ ret[1][i].usingPreviousMonthFallback = usingFallback
                   /\ ret[1][i].currentMonth = 10 * HoursAt(hours, m)
                   /\ ret[1][i].growthRate = ToFixed1(growth[1], growth[2])

\* on the 7th of month 2 a clinician with 4 hours so far is given the 50
\* hours of month 1, and a growth rate other than the one of month 2
C18_Witness ==
    /\ Returned("enrichWithAssignmentMetrics")
    /\ now = [monthIndex |-> 2, dayOfMonth |-> 7]
    /\ hasMonthlyHours(call.cliniciansData[1])
    /\ call.cliniciansData[1].monthlyHours2025 = <<20, 50, 4, 0>>
    /\ ret[1][1].usingPreviousMonthFallback
    /\ ret[1][1].currentMonth = 500
    /\ ret[1][1].growthRate = 1500
    /\ LET atCurrent == calculateGrowthRate(<<20, 50, 4, 0>>, 2, <<2>>)
       IN ToFixed1(atCurrent[1], atCurrent[2]) # 1500

\* the rows of the call whose monthlyHours2025 is an array
HealthyRows == {i \in DOMAIN call.cliniciansData : hasMonthlyHours(call.cliniciansData[i])}

\* the call's roster without the rows that fail
HealthyRoster == SelectSeq(call.cliniciansData, hasMonthlyHours)

\* C17: enrichWithAssignmentMetrics returns exactly one record per input
\* record, in input order, even when deriving one record's features fails
\* (its monthlyHours is not an array): the failing record is emitted with
\* currentMonth = 0, sixMonthAverage = 0, growthRate = 0, burnout tier 'none'
\* with penalty 0 and load-balancing tier 'none' with penalty 0, and the other
\* records are scored normally (as they are in a roster without the failing
\* record).
C17_FailingRecordIsNeutral ==
    Returned("enrichWithAssignmentMetrics") =>
        LET normal == enrichWithAssignmentMetrics(HealthyRoster, now,
                                                  SteadyReads(HealthyRoster, now))
        IN /\ NamesOf(ret[1]) = NamesOf(call.cliniciansData)
           /\ \A i \in DOMAIN ret[1] :
                 IF i \in HealthyRows
                 THEN ret[1][i] = normal[PositionOf(ret[1][i].name, normal)]
                 ELSE /\ ret[1][i].currentMonth = 0
                      /\ ret[1][i].sixMonthAverage = 0
                      /\ ret[1][i].growthRate = 0
                      /\ ret[1][i].burnout.burnoutLevel = "none"
                      /\ ret[1][i].burnout.penalty = 0
                      /\ "protectionLevel" \in DOMAIN ret[1][i].loadBalancing
                      /\ ret[1][i].loadBalancing.protectionLevel = "none"
                      /\ ret[1][i].loadBalancing.penalty = 0

(***************************************************************************)
(* The App left open while the clock moves on                              *)
(***************************************************************************)
\* the clock moves to a later day: no state of the App changes and neither
\* dependency of the cliniciansWithScores memo (cliniciansData, timeWindow)
\* does, so the memo keeps the records of its last pass
Tick ==
    /\ call.fn = "App"
    /\ \E later \in ScenarioClocks :
          /\ \/ later.monthIndex > now.monthIndex
             \/ later.monthIndex = now.monthIndex /\ later.dayOfMonth > now.dayOfMonth
          /\ now' = later
    /\ UNCHANGED <<cliniciansData, timeWindow, selectedLevel, cliniciansWithScores,
                   filteredClinicians, call, ret>>

NextClock == LoadScenario \/ SetTimeWindow \/ Tick
SpecClock == InitScenario /\ [][NextClock]_vars

\* C20: whenever the roster, the reference month (or day-of-month fallback
\* condition), or the time-window parameter changes, the scored records are
\* recomputed from scratch, so the scores held for display are never ones
\* derived from an earlier reference month than the current one: the records
\* held are those of a pass over the roster in the clock's present month.
C20_RecomputedOnChange ==
    cliniciansData # <<>> =>
        \A i \in DOMAIN cliniciansWithScores :
            cliniciansWithScores[i] = WholeRosterPass[i]

(***************************************************************************)
(* Properties of the scoring pass, continued                               *)
(***************************************************************************)
\* the four quotients of the held record i: the records hold the rescaled
\* active cases, the baseline is the maximum of the roster's raw ones
HeldTerms(i) ==
    normalizedTerms(cliniciansWithScores[i], cliniciansWithScores,
                    <<baselineMaxActiveCases(cliniciansData)>>)

\* the quotient <<n, d>> lies in [0, 1]
InUnitInterval(q) == q[2] > 0 /\ 0 <= q[1] /\ q[1] <= q[2]

\* C21: in every scoring pass, including passes with a time window other
\* than 2 and the baseline-max override, each of the four normalized terms
\* (active cases, current month, six-month average, growth) of every
\* clinician lies in the closed interval [0,1].
C21_TermsInUnitInterval ==
    \A i \in DOMAIN cliniciansWithScores :
        /\ InUnitInterval(HeldTerms(i).activeCases)
        /\ InUnitInterval(HeldTerms(i).currentMonth)
        /\ InUnitInterval(HeldTerms(i).sixMonthAvg)
        /\ InUnitInterval(HeldTerms(i).growthRate)

(***************************************************************************)
(* Calls of enrichWithAssignmentMetrics on one clinician over a longer     *)
(* part of the year                                                        *)
(***************************************************************************)
MaxAverageMonth == 7

AverageHours == {0, 4, 30}

AverageClocks ==
    [monthIndex : 0..MaxAverageMonth, dayOfMonth : {EarlyDayLimit, EarlyDayLimit + 1}]

InitAverage ==
    /\ cliniciansData = <<>>
    /\ timeWindow = 4
    /\ selectedLevel = "all"
    /\ now \in AverageClocks
    /\ cliniciansWithScores = <<>>
    /\ filteredClinicians = <<>>
    /\ \E n \in 1..MaxAverageMonth :
          \E h \in [1..n -> AverageHours] :
             call = [fn |-> "enrichWithAssignmentMetrics",
                     cliniciansData |-> EnrichRoster(<<<<h>>>>)]
    /\ ret = <<>>

SpecAverage == InitAverage /\ [][ReturnEnrichWithAssignmentMetrics]_vars

\* C22: sixMonthAverage is the arithmetic mean (zeros included) of the hours
\* at indexes max(0, c-5)..c of the actual current month index c, clipped to
\* the length of the series, and it is the same whether or not the
\* early-month fallback was applied to that clinician; when the clipped
\* window is empty it is 0.  (The record holds the mean to one decimal.)
C22_SixMonthAverage ==
    Returned("enrichWithAssignmentMetrics") =>
        \A i \in DOMAIN ret[1] :
            hasMonthlyHours(call.cliniciansData[i]) =>
                LET hours == call.cliniciansData[i].monthlyHours2025
                    c == now.monthIndex
                    window == {k \in Max2(0, c - 5)..c : k < Len(hours)}
                IN ret[1][i].sixMonthAverage =
                       IF window = {} THEN 0
                       ELSE ToFixed1(SumAt(hours, window), Cardinality(window))

\* in month 6, on the 7th with 4 hours so far, the fallback is applied and
\* the average is the one of months 1..6, zeros included: 64 / 6 = 10.7
C22_Witness ==
    /\ Returned("enrichWithAssignmentMetrics")
    /\ now = [monthIndex |-> 6, dayOfMonth |-> EarlyDayLimit]
    /\ call.cliniciansData[1].monthlyHours2025 = <<30, 0, 30, 0, 30, 0, 4>>
    /\ ret[1][1].usingPreviousMonthFallback
    /\ ret[1][1].currentMonth = 0
    /\ ret[1][1].sixMonthAverage = 107

(***************************************************************************)
(* Calls of detectBurnout, those without an array included                 *)
(***************************************************************************)
NotArrayBurnoutCalls ==
    {[fn |-> "detectBurnout", currentMonthIndex |-> c] : c \in (-1)..MaxBurnoutLen}

InitBurnoutInputs == AppIdle /\ call \in BurnoutCalls \cup NotArrayBurnoutCalls /\ ret = <<>>
SpecBurnoutInputs == InitBurnoutInputs /\ [][ReturnDetectBurnout]_vars

\* C23: detectBurnout returns consecutive count 0, tier 'none' and penalty 0,
\* without throwing and whatever the hour values are, whenever the current
\* month index is < 2, is negative or >= the length of the clinician's
\* series, the series is not an array, or the series has no positive value in
\* months 0..c.
C23_BurnoutNoneOnInvalidInput ==
    Returned("detectBurnout") =>
        LET c == call.currentMonthIndex
            notEligible ==
                \/ "monthlyHours" \notin DOMAIN call
                \/ c < 2
                \/ c < 0
                \/ c >= Len(call.monthlyHours)
                \/ \A i \in 0..c : call.monthlyHours[i + 1] <= 0
        IN notEligible =>
              /\ ret[1].consecutiveHighMonths = 0
              /\ ret[1].burnoutLevel = "none"
              /\ ret[1].penalty = 0

\* two months of 50 hours at month index 1: no detection yet
C23_Witness ==
    /\ Returned("detectBurnout")
    /\ "monthlyHours" \in DOMAIN call
    /\ call.monthlyHours = <<50, 50>>
    /\ call.currentMonthIndex = 1
    /\ ret[1] = BurnoutNone

(***************************************************************************)
(* An enrichment pass that runs while the month ends                       *)
(***************************************************************************)
\* the days of month m of 2025
DaysIn(m) == IF m = 1 THEN 28 ELSE IF m \in {3, 5, 8, 10} THEN 30 ELSE 31

\* the clock on an ordinary day and on the last day of a month
MonthEndClocks ==
    UNION {{[monthIndex |-> m, dayOfMonth |-> d] : d \in {EarlyDayLimit + 1, DaysIn(m)}} :
              m \in 0..MaxMonthIndex}

\* the months new Date() shows to calculate6MonthAverage, clinician by
\* clinician, when the clock leaves month c after the first k of n clinicians
ReadsAcrossMonthEnd(n, k, c) == map([i \in 1..n |-> IF i <= k THEN c ELSE (c + 1) % 12])

InitMonthEnd ==
    /\ cliniciansData = <<>>
    /\ timeWindow = 4
    /\ selectedLevel = "all"
    /\ now \in MonthEndClocks
    /\ cliniciansWithScores = <<>>
    /\ filteredClinicians = <<>>
    /\ \E n \in 1..MaxClinicians :
          \E r \in [1..n -> EnrichRows] :
             call = [fn |-> "enrichWithAssignmentMetrics", cliniciansData |-> EnrichRoster(r)]
    /\ ret = <<>>

\* the pass reads the month and the day when it starts, and each
\* calculate6MonthAverage reads the month again; on the last day of a month
\* the clock may pass midnight in between
ReturnEnrichAcrossMonthEnd ==
    /\ call.fn = "enrichWithAssignmentMetrics"
    /\ ret = <<>>
    /\ LET n == Len(call.cliniciansData)
       IN \E k \in 0..n :
             /\ k < n => now.dayOfMonth = DaysIn(now.monthIndex)
             /\ ret' = <<enrichWithAssignmentMetrics(
                             call.cliniciansData, now,
                             ReadsAcrossMonthEnd(n, k, now.monthIndex))>>
             /\ now' = IF k < n
                       THEN [monthIndex |-> (now.monthIndex + 1) % 12, dayOfMonth |-> 1]
                       ELSE now
    /\ UNCHANGED <<cliniciansData, timeWindow, selectedLevel, cliniciansWithScores,
                   filteredClinicians, call>>

SpecMonthEnd == InitMonthEnd /\ [][ReturnEnrichAcrossMonthEnd]_vars

\* C24: within a single enrichment pass, every clinician's currentMonthHours,
\* sixMonthAverage, growthRate, burnout result and load-balancing result are
\* all computed against one and the same current month index, even if the
\* wall clock moves into the next month while the pass is running: the pass
\* returns the records of the month it started in.
C24_OneMonthPerPass ==
    [][ReturnEnrichAcrossMonthEnd =>
          ret'[1] = enrichWithAssignmentMetrics(call.cliniciansData, now,
                                                SteadyReads(call.cliniciansData, now))]_vars

(***************************************************************************)
(* The App on the example roster: slider and level filter                  *)
(***************************************************************************)
NextPipeline == LoadScenario \/ SetTimeWindow \/ SelectLevel
SpecPipeline == InitScenario /\ [][NextPipeline]_vars

\* C25: no step of the pipeline (enrichWithAssignmentMetrics, active-case
\* rescaling, calculateAssignmentScore, level filtering,
\* sortByAssignmentScore) modifies the caller's roster: after any sequence of
\* scoring passes, filter changes and time-window changes, the input array
\* has the same records in the same order with unchanged monthlyHours,
\* activeCases and level, and no clinician's computation writes to another
\* clinician's record (the scored record at each place is the one of the
\* roster's clinician at that place).
C25_RosterIsReadOnly ==
    [][/\ cliniciansData # <<>> => cliniciansData' = cliniciansData
       /\ Len(cliniciansWithScores') = Len(cliniciansData')
       /\ \A i \in DOMAIN cliniciansData' :
             /\ cliniciansWithScores'[i].name = cliniciansData'[i].name
             /\ cliniciansWithScores'[i].level = cliniciansData'[i].level
             /\ cliniciansWithScores'[i].monthlyHours2025 = cliniciansData'[i].monthlyHours2025
             /\ cliniciansWithScores'[i].activeCases =
                   adjustedActiveCases(cliniciansData'[i].activeCases, timeWindow')]_vars

\* the roster in the order A, B, C with its raw counts while the window is 3
\* months (A scored on 24 cases), the leads are selected and C alone is listed
C25_Witness ==
    /\ timeWindow = 6
    /\ selectedLevel = "lead"
    /\ NamesOf(cliniciansData) = <<"A", "B", "C">>
    /\ cliniciansData[1].activeCases = 20
    /\ cliniciansWithScores[1].activeCases = 24
    /\ NamesOf(filteredClinicians) = <<"C">>

\* C26: for every time-window value w, each clinician's active-case count
\* used in scoring is round(raw x sqrt(w/2)) and the active-case divisor is
\* max(1, maximum raw pre-scaling activeCases over the cohort), never the
\* maximum of the rescaled counts; at w = 2 the rescaled count equals the raw
\* count and every finalScore equals the score computed with no baseline
\* override.  (w = timeWindow / 2; r = round(x) when r - 1/2 <= x < r + 1/2.)
C26_TimeWindowRescaling ==
    \A i \in DOMAIN cliniciansWithScores :
        LET raw == cliniciansData[i].activeCases
            used == cliniciansWithScores[i].activeCases
            rawMax == MaxOver({1} \cup {cliniciansData[j].activeCases :
                                           j \in DOMAIN cliniciansData})
        IN /\ 2 * used - 1 <= 0 \/ (2 * used - 1) * (2 * used - 1) <= raw * raw * timeWindow
           /\ raw * raw * timeWindow < (2 * used + 1) * (2 * used + 1)
           /\ HeldTerms(i).activeCases = <<used, rawMax>>
           /\ cliniciansWithScores[i].assignmentScore =
                 calculateAssignmentScore(cliniciansWithScores[i], cliniciansWithScores,
                                          <<rawMax>>)
           /\ timeWindow = 4 =>
                 /\ used = raw
                 /\ cliniciansWithScores[i].assignmentScore =
                       calculateAssignmentScore(cliniciansWithScores[i],
                                                cliniciansWithScores, <<>>)

\* at 3 months a clinician with 3 cases is scored on 4 of a maximum of 3, and
\* a colleague with 1 case on 1
C26_Witness ==
    /\ timeWindow = 6
    /\ Len(cliniciansData) = 2
    /\ cliniciansData[1].activeCases = 3
    /\ cliniciansData[2].activeCases = 1
    /\ HeldTerms(1).activeCases = <<4, 3>>
    /\ HeldTerms(2).activeCases = <<1, 3>>

(***************************************************************************)
(* Properties of detectLoadBalancing, continued                            *)
(***************************************************************************)
\* C27: in a month where exactly 3 clinicians of the cohort have positive
\* hours, no clinician's hours reach mean + 1.5 x population stdDev, so
\* detectLoadBalancing counts that month for nobody; a clinician can be
\* counted as an outlier only in months with at least 4 positive-hours
\* clinicians.
C27_NoOutlierAmongThree ==
    (Returned("detectLoadBalancing") /\ call.currentMonthIndex >= 1) =>
        LET c == call.currentMonthIndex
            n == ret[1].consecutiveHighLoadMonths
        IN /\ \A z \in 0..c : Cardinality(WithHoursIn(z)) = 3 => n <= c - z
           /\ \A j \in 0..(n - 1) : Cardinality(WithHoursIn(c - j)) >= 4

(***************************************************************************)
(* Calls of detectBurnout on a steady workload                             *)
(***************************************************************************)
\* hours below, next to and above the cap
SteadyHours == {20, 36, HIGH_LOAD_CAP - 1, HIGH_LOAD_CAP, 50}

\* the same hours every month, for one month up to one more than MaxBurnoutLen
SteadyBurnoutCalls ==
    {[fn |-> "detectBurnout", monthlyHours |-> [i \in 1..n |-> h], currentMonthIndex |-> c] :
        h \in SteadyHours, n \in 1..(MaxBurnoutLen + 1), c \in (-1)..(MaxBurnoutLen + 1)}

InitSteadyBurnout == AppIdle /\ call \in SteadyBurnoutCalls /\ ret = <<>>
SpecSteadyBurnout == InitSteadyBurnout /\ [][ReturnDetectBurnout]_vars

\* C28: for a clinician whose hours are the same positive constant h in every
\* month 0..c with c >= 2, detectBurnout counts all c+1 months (tier
\* 'warning' for c = 2, 'severe' for c >= 3) when h >= 45 and counts 0 months
\* (tier 'none') when h < 45: a steady workload is flagged only through the
\* absolute 45-hour cap, never through the 1.25 x own-average rule.
C28_SteadyWorkload ==
    Returned("detectBurnout") =>
        LET c == call.currentMonthIndex
            hours == call.monthlyHours
        IN (c >= 2 /\ c < Len(hours) /\ \A i \in 1..(c + 1) : hours[i] = hours[1] /\ hours[1] > 0)
           => IF hours[1] >= 45
              THEN /\ ret[1].consecutiveHighMonths = c + 1
                   /\ ret[1].burnoutLevel = IF c = 2 THEN "warning" ELSE "severe"
                   /\ ret[1].penalty = IF c = 2 THEN 10 ELSE 15
              ELSE /\ ret[1].consecutiveHighMonths = 0
                   /\ ret[1].burnoutLevel = "none"
                   /\ ret[1].penalty = 0

\* 44 hours in each of four months: nothing is counted
C28_Witness ==
    /\ Returned("detectBurnout")
    /\ call.monthlyHours = <<44, 44, 44, 44>>
    /\ call.currentMonthIndex = 3
    /\ ret[1].consecutiveHighMonths = 0
    /\ ret[1].burnoutLevel = "none"

C30_JanuaryFallback ==
    (Returned("enrichWithAssignmentMetrics") /\ now.monthIndex = 0 /\ now.dayOfMonth <= 7) =>
        /\ Len(ret[1]) = Len(call.cliniciansData)
        /\ \A i \in DOMAIN ret[1] :
              (/\ hasMonthlyHours(call.cliniciansData[i])
               /\ HoursAt(call.cliniciansData[i].monthlyHours2025, 0) < 5)
              => /\ ret[1][i].usingPreviousMonthFallback
                 /\ ret[1][i].currentMonth = 0
                 /\ ret[1][i].growthRate = 0
                 /\ ret[1][i].name = call.cliniciansData[i].name

\* 4 hours by the 7th of January: the record shows no hours and no growth
C30_Witness ==
    /\ Returned("enrichWithAssignmentMetrics")
    /\ now = [monthIndex |-> 0, dayOfMonth |-> EarlyDayLimit]
    /\ hasMonthlyHours(call.cliniciansData[1])
    /\ call.cliniciansData[1].monthlyHours2025 = <<4, 30>>
    /\ ret[1][1].usingPreviousMonthFallback
    /\ ret[1][1].currentMonth = 0
    /\ ret[1][1].growthRate = 0
    /\ ret[1][1].sixMonthAverage = 40

====
